---- MODULE Spec2Model ----
\* The integrate-and-fire notebook (beta versions/Integrate and Fire Model/LIF.ipynb),
\* cell "I&F CODE (version 2)": a forward-Euler loop with a threshold and a reset;
\* and, before it in the notebook, the cell "I&F CODE (version 1)" (the same loop
\* without the threshold) followed by the Part 4 cell, which runs the threshold
\* loop on the array version 1 has filled.
\*
\* The cell's loose variables I, C, dt, Vth, Vreset, the array size and the initial
\* value are gathered in the record cfg, so that the "Adjust the parameter ..."
\* exercises of the notebook are runs of the same code from other configurations.
\* The configuration the notebook itself sets is NotebookConfig.
\*
\* Numbers are exact rationals <<numerator, denominator>> in lowest terms with a
\* positive denominator. The rounding of float64 arithmetic is not modelled.
EXTENDS Integers, Sequences, FiniteSets, TLC

VARIABLES cfg, pc, V, k, t, err, run, prev, cells, writes

\* The notebook "Supplement. Biased versus unbiased autocovariance" (Analysis of
\* Rhythmic Activity in the Scalp EEG): the data x, its length N, the lag axis and
\* the three autocovariance arrays; apc is the position in its cells and aerr the
\* exception that stopped it.
VARIABLES x, N, lags, ac, ac_b, ac_u, apc, aerr

acvars == <<x, N, lags, ac, ac_b, ac_u, apc, aerr>>
lifvars == <<cfg, pc, V, k, t, err, run, prev, cells, writes>>

\* cells and writes record history: the cells executed so far, the last one
\* being the one in execution, and how many times the loop in execution has
\* stored each index of V.
vars == <<cfg, pc, V, k, t, err, run, prev, cells, writes,
          x, N, lags, ac, ac_b, ac_u, apc, aerr>>

\* ---------------------------------------------------------------- bounds

MaxN == 5
MaxRuns == 2
MaxPart4 == 2

\* ---------------------------------------------------------------- numbers

Abs(a) == IF a < 0 THEN -a ELSE a

RECURSIVE GCD(_, _)
GCD(a, b) == IF b = 0 THEN a ELSE GCD(b, a % b)

\* n/d in lowest terms, d # 0.
Rat(n, d) ==
    LET g == GCD(Abs(n), Abs(d))
        s == IF d < 0 THEN -1 ELSE 1
    IN  <<(s * n) \div g, (s * d) \div g>>

Whole(n) == <<n, 1>>
Zero == Whole(0)

RAdd(a, b) == Rat(a[1] * b[2] + b[1] * a[2], a[2] * b[2])
RMul(a, b) == Rat(a[1] * b[1], a[2] * b[2])
\* Python's true division; the caller checks b # Zero first.
RDiv(a, b) == Rat(a[1] * b[2], a[2] * b[1])
RGt(a, b) == a[1] * b[2] > b[1] * a[2]
RGe(a, b) == a[1] * b[2] >= b[1] * a[2]

\* ---------------------------------------------------------------- configurations

NotebookN == 1000

\* Lines 471-477 of the notebook: I=1, C=1, Vth=1, Vreset=0, dt=0.01,
\* V = np.zeros([1000,1]), V[0]=0.2.
NotebookConfig ==
    [I |-> Whole(1), C |-> Whole(1), Vth |-> Whole(1), Vreset |-> Whole(0),
     dt |-> Rat(1, 100), N |-> NotebookN, V0 |-> Rat(1, 5)]

\* The values the exercises put in place of the notebook's.
Configs ==
    [I : {Whole(-1), Whole(0), Whole(1), Whole(2)},
     C : {Whole(-1), Whole(0), Whole(1), Whole(2)},
     Vth : {Whole(-1), Whole(0), Whole(1)},
     Vreset : {Whole(-1), Whole(0), Whole(2)},
     dt : {Rat(1, 2), Whole(1)},
     N : -1 .. MaxN,
     V0 : {Whole(-1), Whole(0), Rat(1, 5), Whole(2)}]
    \cup {NotebookConfig}

\* ---------------------------------------------------------------- the cell's statements

len(a) == Cardinality(DOMAIN a)

\* np.zeros([n,1]) for n >= 0: n elements, indices 0..n-1, all 0.
\* Faulty variants: one element short; contents left over from the allocator.
np_zeros_short(n) == [i \in 0 .. n - 2 |-> Zero]
np_zeros_stale(n) == [i \in 0 .. n - 1 |-> Whole(run)]
np_zeros(n) == [i \in 0 .. n - 1 |-> Zero]

\* numpy's bounds check on V[i] (i >= 0 here): an index outside the array raises
\* IndexError.
\* (faulty variant: no check)
InBoundsUnchecked(i, a) == TRUE
InBounds(i, a) == i \in DOMAIN a

\* range(1,999) on the array of 1000 elements: from 1 up to, not including, N-1.
\* (faulty variant of the start: from index 0)
RangeStartZero == 1 - 1
RangeStart == 1
\* (faulty variant of the stop: one iteration too many)
RangeStopLong(n) == n
RangeStop(n) == n - 1

\* I/C raises ZeroDivisionError exactly when C is zero.
\* (faulty variant: raises for every C <= 0)
DivRaisesNonPositive(c) == ~RGt(c, Zero)
DivRaises(c) == c = Zero

\* dt*(I/C), evaluated once I/C has not raised
Increment == RMul(cfg.dt, RDiv(cfg.I, cfg.C))

\* V[k] + dt*(I/C)
Update(v) == RAdd(v, Increment)

\* V[k+1] > Vth
\* (faulty variant: >=)
ExceedsOrEqual(v) == RGe(v, cfg.Vth)
Exceeds(v) == RGt(v, cfg.Vth)

\* if V[k+1] > Vth: V[k+1] = Vreset
\* (faulty variants: a refractory step after a crossing of the step before; the
\* reset value 0 in place of Vreset)
ResetRefractory(v) ==
    IF Exceeds(v) /\ ~(k >= 2 /\ Exceeds(Update(V[k - 1]))) THEN cfg.Vreset ELSE v
ResetToZero(v) == IF Exceeds(v) THEN Zero ELSE v
Reset(v) == IF Exceeds(v) THEN cfg.Vreset ELSE v

\* No store counted yet, for an array a.
NoWrites(a) == [i \in DOMAIN a |-> 0]

\* np.arange(0,len(V))*dt
\* (faulty variant: the axis starts at dt)
TimeAxisFromOne(a) == [i \in 0 .. len(a) - 1 |-> RMul(Whole(i + 1), cfg.dt)]
TimeAxis(a) == [i \in 0 .. len(a) - 1 |-> RMul(Whole(i), cfg.dt)]

\* ---------------------------------------------------------------- state machine

\* The autocovariance notebook is not open.
AcNotLoaded ==
    /\ apc = "off"
    /\ x = <<>>
    /\ N = 0
    /\ lags = <<>>
    /\ ac = <<>>
    /\ ac_b = <<>>
    /\ ac_u = <<>>
    /\ aerr = "none"

\* The notebook is executed from the version 1 cell on, or (after %reset) from
\* the version 2 cell; run counts the executions of the version 2 cell.
Init ==
    /\ cfg \in Configs
    /\ \/ pc = "zeros" /\ run = 1 /\ cells = <<"v2">>
       \/ pc = "v1_zeros" /\ run = 0 /\ cells = <<"v1">>
    /\ V = <<>>
    /\ k = 0
    /\ t = <<>>
    /\ err = "none"
    /\ prev = <<>>
    /\ writes = <<>>
    /\ AcNotLoaded

\* V = np.zeros([1000,1]); a negative size raises ValueError.
Zeros ==
    /\ pc = "zeros"
    /\ IF cfg.N < 0
         THEN /\ err' = "ValueError"
              /\ pc' = "failed"
              /\ UNCHANGED <<V, writes>>
         ELSE /\ V' = np_zeros(cfg.N)
              /\ writes' = NoWrites(V')
              /\ pc' = "initial"
              /\ UNCHANGED err
    /\ UNCHANGED <<cfg, k, t, run, prev, cells>>
    /\ UNCHANGED acvars

\* V[0]=0.2; index 0 of an empty array raises IndexError. Then the for statement
\* builds its range: k is the value the range yields next.
SetInitial ==
    /\ pc = "initial"
    /\ IF ~InBounds(0, V)
         THEN /\ err' = "IndexError"
              /\ pc' = "failed"
              /\ UNCHANGED <<V, k>>
         ELSE /\ V' = [V EXCEPT ![0] = cfg.V0]
              /\ k' = RangeStart
              /\ pc' = "loop"
              /\ UNCHANGED err
    /\ UNCHANGED <<cfg, t, run, prev, cells, writes>>
    /\ UNCHANGED acvars

\* (faulty variant of the loop body: on a crossing the reset value is assigned
\* to Vth instead of V[k+1])
StepClobber ==
    /\ pc = "loop"
    /\ k < RangeStop(cfg.N)
    /\ IF ~InBounds(k, V) \/ DivRaises(cfg.C) \/ ~InBounds(k + 1, V)
         THEN /\ err' = (IF DivRaises(cfg.C) /\ InBounds(k, V)
                           THEN "ZeroDivisionError" ELSE "IndexError")
              /\ pc' = "failed"
              /\ UNCHANGED <<V, k, writes, cfg>>
         ELSE /\ V' = [V EXCEPT ![k + 1] = Update(V[k])]
              /\ cfg' = IF Exceeds(Update(V[k]))
                           THEN [cfg EXCEPT !.Vth = cfg.Vreset] ELSE cfg
              /\ writes' = [writes EXCEPT ![k + 1] = @ + 1]
              /\ k' = k + 1
              /\ UNCHANGED <<pc, err>>
    /\ UNCHANGED <<t, run, prev, cells>>
    /\ UNCHANGED acvars

\* One iteration of the loop body: V[k+1] = V[k] + dt*(I/C), then the threshold test.
Step ==
    /\ pc = "loop"
    /\ k < RangeStop(cfg.N)
    /\ IF ~InBounds(k, V)
         THEN /\ err' = "IndexError"
              /\ pc' = "failed"
              /\ UNCHANGED <<V, k, writes>>
         ELSE IF DivRaises(cfg.C)
         THEN /\ err' = "ZeroDivisionError"
              /\ pc' = "failed"
              /\ UNCHANGED <<V, k, writes>>
         ELSE IF ~InBounds(k + 1, V)
         THEN /\ err' = "IndexError"
              /\ pc' = "failed"
              /\ UNCHANGED <<V, k, writes>>
         ELSE /\ V' = [V EXCEPT ![k + 1] = Reset(Update(V[k]))]
              /\ writes' = [writes EXCEPT ![k + 1] = @ + 1]
              /\ k' = k + 1
              /\ UNCHANGED <<pc, err>>
    /\ UNCHANGED <<cfg, t, run, prev, cells>>
    /\ UNCHANGED acvars

\* The range is exhausted; t = np.arange(0,len(V))*dt ends the computation
\* (the plot is not modelled).
Axis ==
    /\ pc = "loop"
    /\ k >= RangeStop(cfg.N)
    /\ t' = TimeAxis(V)
    /\ pc' = "done"
    /\ UNCHANGED <<cfg, V, k, err, run, prev, cells, writes>>
    /\ UNCHANGED acvars

Finished == pc \in {"done", "failed"}

\* %reset, then the cell is executed again with the same values: every variable
\* of the cell is cleared; prev keeps the trace of the run before, for comparison.
Rerun ==
    /\ Finished
    /\ run < MaxRuns
    /\ run' = run + 1
    /\ prev' = V
    /\ V' = <<>>
    /\ t' = <<>>
    /\ k' = 0
    /\ err' = "none"
    /\ pc' = "zeros"
    /\ cells' = Append(cells, "v2")
    /\ writes' = <<>>
    /\ UNCHANGED cfg
    /\ UNCHANGED acvars

\* ---- the cell "I&F CODE (version 1)"

\* V = np.zeros([1000,1])
ZerosV1 ==
    /\ pc = "v1_zeros"
    /\ IF cfg.N < 0
         THEN /\ err' = "ValueError"
              /\ pc' = "failed"
              /\ UNCHANGED <<V, writes>>
         ELSE /\ V' = np_zeros(cfg.N)
              /\ writes' = NoWrites(V')
              /\ pc' = "v1_initial"
              /\ UNCHANGED err
    /\ UNCHANGED <<cfg, k, t, run, prev, cells>>
    /\ UNCHANGED acvars

\* V[0]=0.2; then the for statement builds its range.
SetInitialV1 ==
    /\ pc = "v1_initial"
    /\ IF ~InBounds(0, V)
         THEN /\ err' = "IndexError"
              /\ pc' = "failed"
              /\ UNCHANGED <<V, k>>
         ELSE /\ V' = [V EXCEPT ![0] = cfg.V0]
              /\ k' = RangeStart
              /\ pc' = "v1_loop"
              /\ UNCHANGED err
    /\ UNCHANGED <<cfg, t, run, prev, cells, writes>>
    /\ UNCHANGED acvars

\* One iteration of the version 1 loop: V[k+1] = V[k] + dt*(I/C), no threshold.
StepV1 ==
    /\ pc = "v1_loop"
    /\ k < RangeStop(cfg.N)
    /\ IF ~InBounds(k, V)
         THEN /\ err' = "IndexError"
              /\ pc' = "failed"
              /\ UNCHANGED <<V, k, writes>>
         ELSE IF DivRaises(cfg.C)
         THEN /\ err' = "ZeroDivisionError"
              /\ pc' = "failed"
              /\ UNCHANGED <<V, k, writes>>
         ELSE IF ~InBounds(k + 1, V)
         THEN /\ err' = "IndexError"
              /\ pc' = "failed"
              /\ UNCHANGED <<V, k, writes>>
         ELSE /\ V' = [V EXCEPT ![k + 1] = Update(V[k])]
              /\ writes' = [writes EXCEPT ![k + 1] = @ + 1]
              /\ k' = k + 1
              /\ UNCHANGED <<pc, err>>
    /\ UNCHANGED <<cfg, t, run, prev, cells>>
    /\ UNCHANGED acvars

\* The range is exhausted; t = np.arange(0,len(V))*dt.
AxisV1 ==
    /\ pc = "v1_loop"
    /\ k >= RangeStop(cfg.N)
    /\ t' = TimeAxis(V)
    /\ pc' = "v1_done"
    /\ UNCHANGED <<cfg, V, k, err, run, prev, cells, writes>>
    /\ UNCHANGED acvars

\* ---- the Part 4 cell

Count(seq, c) == Cardinality({i \in DOMAIN seq : seq[i] = c})

\* The Part 4 cell is executed after version 1, or once more after itself: Vth
\* and Vreset are set and the for statement builds its range, V being what the
\* cell before left. prev keeps that array for comparison.
Part4 ==
    /\ pc \in {"v1_done", "p4_done"}
    /\ Count(cells, "part4") < MaxPart4
    /\ cells' = Append(cells, "part4")
    /\ prev' = V
    /\ writes' = NoWrites(V)
    /\ k' = RangeStart
    /\ pc' = "p4_loop"
    /\ UNCHANGED <<cfg, V, t, err, run>>
    /\ UNCHANGED acvars

\* (faulty variant of the Part 4 loop body: the increment is added to what
\* V[k+1] already holds)
StepP4InPlace ==
    /\ pc = "p4_loop"
    /\ k < RangeStop(cfg.N)
    /\ IF ~InBounds(k, V) \/ DivRaises(cfg.C) \/ ~InBounds(k + 1, V)
         THEN /\ err' = (IF DivRaises(cfg.C) /\ InBounds(k, V)
                           THEN "ZeroDivisionError" ELSE "IndexError")
              /\ pc' = "failed"
              /\ UNCHANGED <<V, k, writes>>
         ELSE /\ V' = [V EXCEPT ![k + 1] = Reset(Update(V[k + 1]))]
              /\ writes' = [writes EXCEPT ![k + 1] = @ + 1]
              /\ k' = k + 1
              /\ UNCHANGED <<pc, err>>
    /\ UNCHANGED <<cfg, t, run, prev, cells>>
    /\ UNCHANGED acvars

\* One iteration of the Part 4 loop: the body of the version 2 loop, on the
\* array it finds.
StepP4 ==
    /\ pc = "p4_loop"
    /\ k < RangeStop(cfg.N)
    /\ IF ~InBounds(k, V)
         THEN /\ err' = "IndexError"
              /\ pc' = "failed"
              /\ UNCHANGED <<V, k, writes>>
         ELSE IF DivRaises(cfg.C)
         THEN /\ err' = "ZeroDivisionError"
              /\ pc' = "failed"
              /\ UNCHANGED <<V, k, writes>>
         ELSE IF ~InBounds(k + 1, V)
         THEN /\ err' = "IndexError"
              /\ pc' = "failed"
              /\ UNCHANGED <<V, k, writes>>
         ELSE /\ V' = [V EXCEPT ![k + 1] = Reset(Update(V[k]))]
              /\ writes' = [writes EXCEPT ![k + 1] = @ + 1]
              /\ k' = k + 1
              /\ UNCHANGED <<pc, err>>
    /\ UNCHANGED <<cfg, t, run, prev, cells>>
    /\ UNCHANGED acvars

\* The range is exhausted: the Part 4 cell ends.
EndP4 ==
    /\ pc = "p4_loop"
    /\ k >= RangeStop(cfg.N)
    /\ pc' = "p4_done"
    /\ UNCHANGED <<cfg, V, k, t, err, run, prev, cells, writes>>
    /\ UNCHANGED acvars

\* %reset after Part 4, then the version 2 cell: every variable is cleared; prev
\* keeps the array Part 4 left, for comparison.
ResetToV2 ==
    /\ pc = "p4_done"
    /\ run' = run + 1
    /\ prev' = V
    /\ V' = <<>>
    /\ t' = <<>>
    /\ k' = 0
    /\ pc' = "zeros"
    /\ cells' = Append(cells, "v2")
    /\ writes' = <<>>
    /\ UNCHANGED <<cfg, err>>
    /\ UNCHANGED acvars

Next ==
    \/ Zeros \/ SetInitial \/ Step \/ Axis \/ Rerun
    \/ ZerosV1 \/ SetInitialV1 \/ StepV1 \/ AxisV1
    \/ Part4 \/ StepP4 \/ EndP4 \/ ResetToV2

Spec == Init /\ [][Next]_vars

\* ---------------------------------------------------------------- properties

Positive(v) == RGt(v, Zero)
Negative(v) == RGt(Zero, v)

\* C1: in a completed run every index k in 0..N-2 is followed by the stepped value:
\* trace[k+1] is Vreset if trace[k] + dt*(I/C) > Vth, and trace[k] + dt*(I/C)
\* otherwise; in particular trace[1] is stepped from trace[0] = V0.
C1_EveryIndexStepped ==
    (pc = "done" /\ Positive(cfg.C)) =>
        \A j \in 0 .. cfg.N - 2 : V[j + 1] = Reset(Update(V[j]))

\* C2: after a run with step count N the trace has exactly the N indices 0..N-1
\* and element 0 is V0.
C2_LengthAndInitial ==
    pc = "done" => /\ len(V) = cfg.N
                   /\ DOMAIN V = 0 .. cfg.N - 1
                   /\ V[0] = cfg.V0

C2_Witness ==
    /\ pc = "done"
    /\ cfg.N = MaxN
    /\ cfg.V0 # Zero
    /\ \E j \in DOMAIN V : j >= 2 /\ V[j] # Zero

\* C3: in every loop step the comparison is strict: a candidate equal to Vth is
\* stored as it is, a candidate greater than Vth is replaced by Vreset.
C3_StrictThreshold ==
    [][(pc = "loop" /\ pc' = "loop" /\ k' = k + 1) =>
          LET c == Update(V[k])
          IN  /\ c = cfg.Vth => V'[k + 1] = c
              /\ RGt(c, cfg.Vth) => V'[k + 1] = cfg.Vreset
              /\ RGt(cfg.Vth, c) => V'[k + 1] = c]_vars

\* A trace holding a candidate equal to Vth, stored, and a later candidate above
\* Vth, reset.
C3_Witness ==
    /\ cfg.C # Zero
    /\ cfg.Vreset # cfg.Vth
    /\ \E i, j \in 2 .. k :
          /\ InBounds(i, V) /\ InBounds(j, V)
          /\ Update(V[i - 1]) = cfg.Vth /\ V[i] = cfg.Vth
          /\ RGt(Update(V[j - 1]), cfg.Vth) /\ V[j] = cfg.Vreset

\* C4: with I = 0 and C > 0 every element of the completed trace equals V0.
C4_ZeroCurrentConstant ==
    (pc = "done" /\ cfg.I = Zero /\ Positive(cfg.C)) =>
        \A j \in DOMAIN V : V[j] = cfg.V0

\* C5: with I > 0, C > 0 and no candidate above Vth anywhere in the run, the
\* completed trace grows linearly from V0: trace[j] = V0 + j*dt*(I/C) at every index.
C5_LinearGrowth ==
    (/\ pc = "done"
     /\ Positive(cfg.I)
     /\ Positive(cfg.C)
     /\ \A j \in 0 .. cfg.N - 2 : ~Exceeds(Update(V[j]))) =>
        \A j \in DOMAIN V : V[j] = RAdd(cfg.V0, RMul(Whole(j), Increment))

\* C6: in the notebook's configuration (I=1, C=1, dt=0.01, N=1000, V0=0.2, Vth=1,
\* Vreset=0) the completed trace has trace[0] = 0.2, trace[79] = 0.99 and
\* trace[80] reset to 0.
C6_NotebookScenario ==
    (pc = "done" /\ cfg = NotebookConfig) =>
        /\ V[0] = Rat(1, 5)
        /\ V[79] = Rat(99, 100)
        /\ V[80] = Zero

\* The loop has stored no element: beyond index 0 the array holds the zeros of
\* its allocation and the range has yielded nothing.
NothingStepped ==
    /\ k <= RangeStart
    /\ \A j \in DOMAIN V : j >= 1 => V[j] = Zero

C9_OthersAccepted ==
    (Positive(cfg.C) /\ cfg.N >= 1) =>
        /\ err = "none"
        /\ pc # "failed"
        /\ pc = "done" => DOMAIN V = 0 .. cfg.N - 1

C9_Witness ==
    /\ pc = "done"
    /\ Positive(cfg.C)
    /\ Negative(cfg.I)
    /\ RGt(cfg.Vreset, cfg.Vth)
    /\ cfg.N >= 3
    /\ Negative(V[2])

C12_EveryIndexAssignedOnce ==
    (pc = "done" /\ Positive(cfg.C) /\ cfg.N >= 1) =>
        /\ V[0] = cfg.V0
        /\ \A j \in 1 .. cfg.N - 1 : writes[j] = 1

\* C13: the run has no effect on its configuration: no step changes I, C, dt,
\* Vth, Vreset, V0 or N, and a step of the loop changes nothing but the trace
\* (and the loop's own index).
C13_ConfigNeverWritten ==
    [][/\ cfg' = cfg
       /\ (pc = "loop" /\ pc' = "loop") =>
             /\ t' = t
             /\ \E j \in DOMAIN V : V' = [V EXCEPT ![j] = V'[j]]]_vars

\* The loop has stepped three times and one of the steps was a reset.
C13_Witness ==
    /\ pc = "loop"
    /\ k >= 4
    /\ cfg.Vreset # cfg.Vth
    /\ \E j \in 2 .. k : Exceeds(Update(V[j - 1])) /\ V[j] = cfg.Vreset

C15_Version1Increases ==
    (pc = "v1_done" /\ Positive(cfg.I) /\ Positive(cfg.C)) =>
        \A j \in 0 .. cfg.N - 2 : RGt(V[j + 1], V[j])

\* C16: if V0 <= Vth and Vreset <= Vth then every element of the completed
\* version 2 trace is <= Vth (C > 0; dt > 0 in every configuration).
C16_BoundedByThreshold ==
    (/\ pc = "done"
     /\ Positive(cfg.C)
     /\ RGe(cfg.Vth, cfg.V0)
     /\ RGe(cfg.Vth, cfg.Vreset)) =>
        \A j \in DOMAIN V : RGe(cfg.Vth, V[j])

Spikes == {j \in 2 .. k : InBounds(j, V) /\ Exceeds(Update(V[j - 1]))}

\* a and b are resets with no reset between them.
Consecutive(a, b, S) == a < b /\ \A c \in S : ~(a < c /\ c < b)

\* C18: with I > 0, C > 0, dt > 0 and Vreset < Vth the spiking of a completed
\* run is periodic: any two pairs of consecutive resets are the same number of
\* steps apart, and from a reset up to the next the voltage is Vreset plus
\* dt*(I/C) per step.
C18_PeriodicSpiking ==
    (/\ pc = "done"
     /\ Positive(cfg.I)
     /\ Positive(cfg.C)
     /\ RGt(cfg.Vth, cfg.Vreset)) =>
        LET S == Spikes
        IN  /\ \A a, b, c, d \in S :
                  (Consecutive(a, b, S) /\ Consecutive(c, d, S)) => b - a = d - c
            /\ \A a \in S : \A m \in a .. k :
                  (\A b \in S : ~(a < b /\ b <= m)) =>
                      V[m] = RAdd(cfg.Vreset, RMul(Whole(m - a), Increment))

\* The notebook's own run: several resets, more than one step apart.
C18_Witness ==
    /\ pc = "done"
    /\ cfg = NotebookConfig
    /\ Cardinality(Spikes) >= 3
    /\ \E a, b \in Spikes : Consecutive(a, b, Spikes) /\ b - a > 1

\* C19: with Vreset > Vth and dt*(I/C) >= 0, once the loop has reset an index
\* every later index holds Vreset too: the trace never resumes integrating.
C19_StuckAtReset ==
    (/\ pc \in {"loop", "done"}
     /\ cfg.C # Zero
     /\ RGt(cfg.Vreset, cfg.Vth)
     /\ RGe(Increment, Zero)) =>
        \A a \in Spikes : \A m \in a .. k : V[m] = cfg.Vreset /\ m \in Spikes

C19_Witness ==
    /\ pc = "done"
    /\ cfg.C # Zero
    /\ RGt(cfg.Vreset, cfg.Vth)
    /\ Positive(Increment)
    /\ cfg.N >= 5
    /\ 2 \notin Spikes
    /\ 3 \in Spikes
    /\ V[4] = cfg.Vreset

\* The last two cells executed are c then d.
LastTwo(c, d) ==
    /\ Len(cells) >= 2
    /\ cells[Len(cells) - 1] = c
    /\ cells[Len(cells)] = d

\* C20: the threshold loop's result does not depend on what the indices it
\* writes held before: Part 4 run on the array version 1 filled leaves the trace
\* version 2 computes on a fresh array of zeros, and Part 4 run a second time
\* leaves the trace unchanged.
C20_Part4IndependentOfContents ==
    /\ (pc = "done" /\ LastTwo("part4", "v2")) => V = prev
    /\ (pc = "p4_done" /\ LastTwo("part4", "part4")) => V = prev

C20_Witness ==
    /\ pc = "done"
    /\ cells = <<"v1", "part4", "part4", "v2">>
    /\ cfg.N >= 5
    /\ cfg.C # Zero
    /\ Spikes # {}
    /\ V[4] # Zero
    /\ V = prev

\* ================================================================ autocovariance
\* The notebook "Supplement. Biased versus unbiased autocovariance": the cell that
\* loads the EEG data and the cell that computes lags, ac, ac_b and ac_u.

MaxSamples == 4

\* Values a sample of the EEG can take, and the data sets of 0..MaxSamples samples
\* (a 1-D array indexed from 0, as reshape(-1) returns).
Samples == {Whole(-1), Zero, Rat(1, 2), Whole(2)}
Datasets == UNION {[0 .. n - 1 -> Samples] : n \in 0 .. MaxSamples}

RNeg(a) == <<-a[1], a[2]>>
RSub(a, b) == RAdd(a, RNeg(b))
RAbs(a) == <<Abs(a[1]), a[2]>>

\* The value numpy stores for a division by zero (inf, with a RuntimeWarning), and
\* for every product with it (inf, -inf or nan): one non-finite value.
Inf == <<1, 0>>
Recip(d) == IF d = 0 THEN Inf ELSE Rat(1, d)
Times(w, v) == IF w = Inf \/ v = Inf THEN Inf ELSE RMul(w, v)

\* np.arange(start, stop): the integers start, start+1, ..., stop-1.
np_arange(start, stop) == [i \in 0 .. stop - start - 1 |-> start + i]

\* a[0] + ... + a[n-1].
RECURSIVE SumUpTo(_, _)
SumUpTo(a, n) == IF n = 0 THEN Zero ELSE RAdd(SumUpTo(a, n - 1), a[n - 1])

\* a.mean() of a non-empty array.
mean(a) == RDiv(SumUpTo(a, len(a)), Whole(len(a)))

\* x - x.mean()
Centered(a) == [i \in DOMAIN a |-> RSub(a[i], mean(a))]

\* v[::-1]
np_flip(v) == [i \in DOMAIN v |-> v[len(v) - 1 - i]]

\* np.convolve(a, w, mode="full") of non-empty arrays: len(a) + len(w) - 1 entries,
\* entry m the sum of a[j] * w[m - j] over the j where both exist.
np_convolve(a, w) ==
    [m \in 0 .. len(a) + len(w) - 2 |->
        SumUpTo([j \in DOMAIN a |-> IF (m - j) \in DOMAIN w
                                    THEN RMul(a[j], w[m - j])
                                    ELSE Zero],
                len(a))]

\* np.correlate(a, v, mode="full") of real arrays: the convolution of a with v
\* reversed.
np_correlate(a, v) == np_convolve(a, np_flip(v))

\* Faulty variants of the four statements: a lag axis one wider on each side; the
\* second argument of the correlation not centred; the biased weight 1/(N+1); the
\* unbiased estimate weighted like the biased one.
LagsWide(n) == np_arange(-n, n + 1)
CorrelationHalfCentered(a) == np_correlate(Centered(a), a)
BiasedWeightNext(n) == Recip(n + 1)
UnbiasedWeightsAsBiased(n, lg) == [i \in DOMAIN lg |-> Recip(n)]

\* lags = np.arange(-N + 1, N)
Lags(n) == np_arange(-n + 1, n)
\* ac = np.correlate(x - x.mean(), x - x.mean(), mode="full")
Correlation(a) == np_correlate(Centered(a), Centered(a))
\* 1 / N
BiasedWeight(n) == Recip(n)
\* 1 / (N - np.abs(lags))
UnbiasedWeights(n, lg) == [i \in DOMAIN lg |-> Recip(n - Abs(lg[i]))]

\* numpy's broadcasting of two 1-D arrays: equal lengths, or one of length 1 which
\* is repeated; anything else raises ValueError.
Broadcasts(w, a) == len(w) = len(a) \/ len(w) = 1 \/ len(a) = 1
At(a, i) == IF len(a) = 1 THEN a[0] ELSE a[i]
np_multiply(w, a) ==
    [i \in 0 .. (IF len(w) = 1 THEN len(a) ELSE len(w)) - 1 |->
        Times(At(w, i), At(a, i))]

\* The integrate-and-fire notebook is not open.
LifNotLoaded ==
    /\ cfg = NotebookConfig
    /\ pc = "off"
    /\ V = <<>>
    /\ k = 0
    /\ t = <<>>
    /\ err = "none"
    /\ run = 0
    /\ prev = <<>>
    /\ cells = <<>>
    /\ writes = <<>>

\* After the import cell: x = data['EEG'].reshape(-1); N = len(x).
InitAC ==
    /\ LifNotLoaded
    /\ x \in Datasets
    /\ N = len(x)
    /\ apc = "loaded"
    /\ lags = <<>>
    /\ ac = <<>>
    /\ ac_b = <<>>
    /\ ac_u = <<>>
    /\ aerr = "none"

\* lags = np.arange(-N + 1, N)
ComputeLags ==
    /\ apc = "loaded"
    /\ lags' = Lags(N)
    /\ apc' = "lags"
    /\ UNCHANGED <<x, N, ac, ac_b, ac_u, aerr>>
    /\ UNCHANGED lifvars

\* ac = np.correlate(x - x.mean(), x - x.mean(), mode="full"); np.correlate raises
\* ValueError for an empty array, which ends the cell.
ComputeAc ==
    /\ apc = "lags"
    /\ IF N = 0
         THEN /\ aerr' = "ValueError"
              /\ apc' = "failed"
              /\ UNCHANGED ac
         ELSE /\ ac' = Correlation(x)
              /\ apc' = "ac"
              /\ UNCHANGED aerr
    /\ UNCHANGED <<x, N, lags, ac_b, ac_u>>
    /\ UNCHANGED lifvars

\* ac_b = 1 / N * ac (N >= 1 here: the statement before has stopped on empty data)
ComputeBiased ==
    /\ apc = "ac"
    /\ ac_b' = [i \in DOMAIN ac |-> Times(BiasedWeight(N), ac[i])]
    /\ apc' = "ac_b"
    /\ UNCHANGED <<x, N, lags, ac, ac_u, aerr>>
    /\ UNCHANGED lifvars

\* ac_u = 1 / (N - np.abs(lags)) * ac
ComputeUnbiased ==
    /\ apc = "ac_b"
    /\ IF Broadcasts(UnbiasedWeights(N, lags), ac)
         THEN /\ ac_u' = np_multiply(UnbiasedWeights(N, lags), ac)
              /\ apc' = "done"
              /\ UNCHANGED aerr
         ELSE /\ aerr' = "ValueError"
              /\ apc' = "failed"
              /\ UNCHANGED ac_u
    /\ UNCHANGED <<x, N, lags, ac, ac_b>>
    /\ UNCHANGED lifvars

NextAC ==
    \/ ComputeLags
    \/ ComputeAc
    \/ ComputeBiased
    \/ ComputeUnbiased

SpecAC == InitAC /\ [][NextAC]_vars

\* ---------------------------------------------------------------- autocovariance properties

\* The sum of the definition at lag L: (x[n+L] - mean)(x[n] - mean) over the n for
\* which both samples exist.
Overlap(L) == {n \in 0 .. N - 1 : (n + L) \in 0 .. N - 1}
DirectSum(L) ==
    LET xbar == RDiv(SumUpTo(x, N), Whole(N))
    IN  SumUpTo([n \in 0 .. N - 1 |->
                    IF n \in Overlap(L)
                    THEN RMul(RSub(x[n + L], xbar), RSub(x[n], xbar))
                    ELSE Zero],
                N)

\* C21: at every lag L in -(N-1)..N-1 the biased estimate times N and the unbiased
\* estimate times N-|L| both equal the same non-normalised sum over the overlapping
\* samples; so the two estimates are equal at lag 0 and the biased one is nowhere
\* larger in magnitude than the unbiased one.
C21_CommonSum ==
    apc = "done" =>
        /\ {lags[i] : i \in DOMAIN lags} = -(N - 1) .. N - 1
        /\ DOMAIN ac_b = DOMAIN lags
        /\ DOMAIN ac_u = DOMAIN lags
        /\ \A i \in DOMAIN lags :
              LET L == lags[i]
              IN  /\ ac_u[i] # Inf
                  /\ ac[i] = DirectSum(L)
                  /\ RMul(ac_b[i], Whole(N)) = DirectSum(L)
                  /\ RMul(ac_u[i], Whole(N - Abs(L))) = DirectSum(L)
                  /\ (L = 0 => ac_b[i] = ac_u[i])
                  /\ RGe(RAbs(ac_u[i]), RAbs(ac_b[i]))

\* Three or more samples, and a lag other than 0 where the biased estimate is
\* strictly smaller in magnitude than the unbiased one.
C21_Witness ==
    /\ apc = "done"
    /\ N >= 3
    /\ \E i \in DOMAIN lags :
          /\ lags[i] # 0
          /\ RGt(RAbs(ac_u[i]), RAbs(ac_b[i]))

\* The product of the last and the first sample, each less the mean.
EndProduct ==
    LET xbar == RDiv(SumUpTo(x, N), Whole(N))
    IN  RMul(RSub(x[N - 1], xbar), RSub(x[0], xbar))

\* C22: at the largest lag L = N-1 the sum has exactly one term: the unbiased
\* estimate is (x_N - mean)(x_1 - mean) and the biased estimate is that product
\* divided by N.
C22_LargestLag ==
    apc = "done" =>
        /\ \E i \in DOMAIN lags : lags[i] = N - 1
        /\ Overlap(N - 1) = {0}
        /\ \A i \in DOMAIN lags :
              lags[i] = N - 1 =>
                  /\ ac_u[i] = EndProduct
                  /\ ac_b[i] = RDiv(EndProduct, Whole(N))

\* Three or more samples whose end product is not zero, so that the two estimates
\* at lag N-1 differ.
C22_Witness ==
    /\ apc = "done"
    /\ N >= 3
    /\ EndProduct # Zero
    /\ \E i \in DOMAIN lags :
          /\ lags[i] = N - 1
          /\ ac_u[i] # ac_b[i]

\* C23: the autocovariance is an even function of the lag: for every L in 0..N-1
\* the biased estimate at L equals the biased estimate at -L, and likewise the
\* unbiased estimate.
C23_EvenInLag ==
    apc = "done" =>
        \A L \in 0 .. N - 1 :
            \E i, j \in DOMAIN lags :
                /\ lags[i] = L
                /\ lags[j] = -L
                /\ ac_b[i] = ac_b[j]
                /\ ac_u[i] = ac_u[j]

\* Data that is not its own mirror image, with a non-zero estimate at a positive
\* lag and the same estimate at the opposite lag.
C23_Witness ==
    /\ apc = "done"
    /\ N >= 3
    /\ x # np_flip(x)
    /\ \E i, j \in DOMAIN lags :
          /\ lags[i] > 0
          /\ lags[j] = -lags[i]
          /\ ac_b[i] # Zero
          /\ ac_b[i] = ac_b[j]

\* C24: for N >= 1 the lag axis has exactly the 2N-1 entries -(N-1), ..., N-1 in
\* order, one for each element of the full-mode correlation, the divisor N-|L| of
\* the unbiased estimate is at least 1 at each of them, and the cell completes
\* without a division by zero.
C24_LagAxis ==
    N >= 1 =>
        /\ apc # "failed"
        /\ aerr = "none"
        /\ apc \in {"lags", "ac", "ac_b", "done"} =>
              /\ len(lags) = 2 * N - 1
              /\ DOMAIN lags = 0 .. 2 * N - 2
              /\ \A i \in DOMAIN lags :
                    /\ lags[i] = i - (N - 1)
                    /\ N - Abs(lags[i]) >= 1
        /\ apc \in {"ac", "ac_b", "done"} => DOMAIN ac = DOMAIN lags
        /\ apc = "done" =>
              /\ DOMAIN ac_u = DOMAIN lags
              /\ \A i \in DOMAIN ac_u : ac_u[i] # Inf

\* A completed cell on two or more samples, where the divisor at the two ends of
\* the lag axis is exactly 1.
C24_Witness ==
    /\ apc = "done"
    /\ N >= 2
    /\ N - Abs(lags[0]) = 1
    /\ N - Abs(lags[2 * N - 2]) = 1
    /\ ac_u[0] # Zero

====
